---- MODULE Spec2Model ----
(***************************************************************************)
(* A model of parse_excalidraw_to_manim (src/main.py): read the Manim      *)
(* configuration, load the Excalidraw document, aggregate the shapes into  *)
(* frames, then write one scene per frame to the output file.              *)
(*                                                                         *)
(* Python values are modelled as follows.                                  *)
(*   - A value that may be None (the result of dict.get without a default  *)
(*     on an optional key) is a tuple: <<>> is None, <<v>> is the value v. *)
(*   - A number is an exact rational <<n, d>> in lowest terms with d > 0   *)
(*     (Python computes in binary floating point; rounding is not          *)
(*     modelled).                                                          *)
(*   - A string that the program inspects character by character (a        *)
(*     configuration value, a frame name, a text) is a tuple of            *)
(*     one-character strings; an identifier or a type is a plain string.   *)
(***************************************************************************)
EXTENDS Integers, Sequences, FiniteSets, TLC

\* The longest elements array of the input document that is explored.
MaxShapes == 2

-----------------------------------------------------------------------------
(* Optional values *)

None == <<>>

Some(v) == <<v>>

IsNone(o) == o = <<>>

Val(o) == o[1]

\* dict.get(key, default)
GetOr(o, default) == IF IsNone(o) THEN default ELSE Val(o)

-----------------------------------------------------------------------------
(* Exact rational arithmetic *)

Abs(n) == IF n < 0 THEN -n ELSE n

RECURSIVE Gcd(_, _)
Gcd(a, b) == IF b = 0 THEN a ELSE Gcd(b, a % b)

\* The rational n/d (d # 0) in lowest terms with a positive denominator.
Rat(n, d) ==
    LET g == Gcd(Abs(n), Abs(d))
        s == IF d < 0 THEN -1 ELSE 1
    IN  <<(s * n) \div g, (s * d) \div g>>

RInt(n) == <<n, 1>>

RAdd(a, b) == Rat(a[1] * b[2] + b[1] * a[2], a[2] * b[2])

RSub(a, b) == Rat(a[1] * b[2] - b[1] * a[2], a[2] * b[2])

RNeg(a) == <<-a[1], a[2]>>

RMul(a, b) == Rat(a[1] * b[1], a[2] * b[2])

\* a / b for b # 0
RDiv(a, b) == Rat(a[1] * b[2], a[2] * b[1])

RIsZero(a) == a[1] = 0

RLess(a, b) == a[1] * b[2] < b[1] * a[2]

\* A variant that takes the larger of the two.
RMax(a, b) == IF RLess(a, b) THEN b ELSE a

\* Python's min(a, b): the first argument unless the second is smaller.
RMin(a, b) == IF RLess(b, a) THEN b ELSE a

-----------------------------------------------------------------------------
(* Strings as character tuples *)

LowerLetters ==
    <<"a", "b", "c", "d", "e", "f", "g", "h", "i", "j", "k", "l", "m",
      "n", "o", "p", "q", "r", "s", "t", "u", "v", "w", "x", "y", "z">>

UpperLetters ==
    <<"A", "B", "C", "D", "E", "F", "G", "H", "I", "J", "K", "L", "M",
      "N", "O", "P", "Q", "R", "S", "T", "U", "V", "W", "X", "Y", "Z">>

Range(s) == {s[k] : k \in DOMAIN s}

IsLower(c) == c \in Range(LowerLetters)

IsUpper(c) == c \in Range(UpperLetters)

IsCased(c) == IsLower(c) \/ IsUpper(c)

IndexOf(s, c) == CHOOSE k \in DOMAIN s : s[k] = c

ToUpper(c) == IF IsLower(c) THEN UpperLetters[IndexOf(LowerLetters, c)] ELSE c

ToLower(c) == IF IsUpper(c) THEN LowerLetters[IndexOf(UpperLetters, c)] ELSE c

\* str.isspace() of one character
IsSpace(c) == c \in {" ", "\t", "\n"}

\* str.title(): a cased character is upper-cased when it follows an uncased
\* character (or starts the string), and lower-cased otherwise.
Title(s) ==
    [k \in DOMAIN s |->
        IF k = 1 \/ ~IsCased(s[k - 1]) THEN ToUpper(s[k]) ELSE ToLower(s[k])]

\* ''.join(x for x in s if not x.isspace())
StripSpaces(s) == SelectSeq(s, LAMBDA c : ~IsSpace(c))

\* f"Frame{...}Scene"
SceneName(frame_name) ==
    <<"F", "r", "a", "m", "e">> \o StripSpaces(Title(frame_name))
        \o <<"S", "c", "e", "n", "e">>

\* str.split("\n"): the pieces between the newlines (always at least one)
RECURSIVE SplitLines(_)
SplitLines(s) ==
    IF \A k \in DOMAIN s : s[k] # "\n"
    THEN <<s>>
    ELSE LET k == CHOOSE j \in DOMAIN s :
                      s[j] = "\n" /\ \A m \in 1..(j - 1) : s[m] # "\n"
         IN  <<SubSeq(s, 1, k - 1)>> \o SplitLines(SubSeq(s, k + 1, Len(s)))

Digits == <<"0", "1", "2", "3", "4", "5", "6", "7", "8", "9">>

IsDigit(c) == c \in Range(Digits)

DigitVal(c) == IndexOf(Digits, c) - 1

RECURSIVE DigitsVal(_)
DigitsVal(s) ==
    IF s = <<>> THEN 0
    ELSE 10 * DigitsVal(SubSeq(s, 1, Len(s) - 1)) + DigitVal(s[Len(s)])

\* float(s) on a configuration string, for the literals explored here: an
\* optional sign followed by decimal digits.  Anything else that float()
\* rejects is represented by a string with a non-digit character.
\* None stands for the ValueError.
ParseFloat(s) ==
    LET signed == s # <<>> /\ s[1] \in {"-", "+"}
        body == IF signed THEN Tail(s) ELSE s
    IN  IF body = <<>> \/ \E k \in DOMAIN body : ~IsDigit(body[k])
        THEN None
        ELSE Some(RInt((IF signed /\ s[1] = "-" THEN -1 ELSE 1) * DigitsVal(body)))

-----------------------------------------------------------------------------
(* Inputs: the configuration file and the Excalidraw document *)

\* Line 14 and line 15: the canvas when the configuration says nothing.
DefaultFrameWidth == 14

DefaultFrameHeight == 8

Config(section, fw, fh) ==
    [section |-> section, frame_width |-> fw, frame_height |-> fh]

\* The configurations explored: no CLI section, a CLI section with one or
\* both keys, and values float() accepts (positive, zero, negative) or
\* rejects (in the first key or in the second).
Configs ==
    { Config(FALSE, None, None),
      Config(TRUE, Some(<<"-", "4">>), None),
      Config(TRUE, None, Some(<<"2">>)),
      Config(TRUE, Some(<<"0">>), Some(<<"2">>)),
      Config(TRUE, Some(<<"a", "b", "c">>), Some(<<"2">>)),
      Config(TRUE, Some(<<"4">>), Some(<<"1", "x">>)) }

Ids == {"a", "b"}

MyFrame == <<"m", "y", " ", "f", "r", "a", "m", "e">>

IntroScene == <<"I", "n", "t", "r", "o", " ", "S", "c", "e", "n", "e">>

HiText == <<"h", "i", "\n", "y", "o">>

Geometry(type, x, y, width, height, name, text, fontSize) ==
    [type |-> type, x |-> x, y |-> y, width |-> width, height |-> height,
     name |-> name, text |-> text, fontSize |-> fontSize]

N(n) == Some(RInt(n))

\* The kinds of element explored: drawable and other types, with every
\* optional field present or absent in at least one of them, and with
\* zero and non-zero sizes.
Kinds ==
    { Geometry(Some("rectangle"), N(0), N(0), N(4), N(2), Some(MyFrame), None, None),
      Geometry(Some("ellipse"), N(1), N(0), N(2), N(2), Some(IntroScene), None, None),
      Geometry(Some("text"), N(3), N(2), N(2), N(0), Some(MyFrame), Some(HiText), N(20)),
      Geometry(Some("arrow"), None, N(0), N(0), N(2), Some(MyFrame), None, None),
      Geometry(Some("arrow"), N(5), N(5), None, None, None, None, None),
      Geometry(Some("line"), N(0), N(0), None, N(0), Some(MyFrame), None, None),
      Geometry(Some("rectangle"), N(2), N(1), N(2), N(4), None, None, None) }

Shape(id, frameId, g) ==
    [id |-> id, frameId |-> frameId, type |-> g.type, x |-> g.x, y |-> g.y,
     width |-> g.width, height |-> g.height, name |-> g.name,
     text |-> g.text, fontSize |-> g.fontSize]

Shapes ==
    { Shape(Some(id), fid, g) :
        id \in Ids, fid \in {None} \cup {Some(f) : f \in Ids}, g \in Kinds }

SeqsUpTo(S, n) == UNION { [1..m -> S] : m \in 0..n }

\* A document is its top-level "elements" value: None when the key is absent.
Documents == {None} \cup { Some(s) : s \in SeqsUpTo(Shapes, MaxShapes) }

-----------------------------------------------------------------------------
(* State *)

VARIABLES
    pc,                  \* where the function is: "config", "load",
                         \* "aggregate", "open", "frame", "object",
                         \* "returned" or "raised"
    config,              \* input: the content of the configuration file
    document,            \* input: the "elements" value of the document
    manim_frame_width,   \* the canvas
    manim_frame_height,
    shapes,              \* the elements being aggregated
    i,                   \* position of the aggregation loop in shapes
    frames,              \* the frames dict, in insertion order
    fi,                  \* position of the frame loop in frames
    oi,                  \* position of the object loop in the frame's objects
    scale,               \* the scale of the current frame, None before it is set
    opened,              \* whether open(output_file, 'w') has been executed
    manim_file,          \* content of the output file, a sequence of entries
    stdout,              \* what has been printed
    raised               \* the exception that left the function, "" if none

vars ==
    <<pc, config, document, manim_frame_width, manim_frame_height, shapes, i,
      frames, fi, oi, scale, opened, manim_file, stdout, raised>>

\* One entry of the output file.  frame and src say which frame and which
\* input element (by position) the entry was written for; they are not
\* part of the text written.
Entry(kind, frame, src, name, x, y, width, height, lines, font_size) ==
    [kind |-> kind, frame |-> frame, src |-> src, name |-> name,
     x |-> x, y |-> y, width |-> width, height |-> height,
     lines |-> lines, font_size |-> font_size]

PlainEntry(kind, frame, name) ==
    Entry(kind, frame, 0, name, RInt(0), RInt(0), RInt(0), RInt(0), <<>>, RInt(0))

\* What the output file holds before the run.
PriorContent == <<PlainEntry("prior", "", <<>>)>>

Init ==
    /\ pc = "config"
    /\ config \in Configs
    /\ document \in Documents
    /\ manim_frame_width = RInt(DefaultFrameWidth)
    /\ manim_frame_height = RInt(DefaultFrameHeight)
    /\ shapes = <<>>
    /\ i = 0
    /\ frames = <<>>
    /\ fi = 0
    /\ oi = 0
    /\ scale = None
    /\ opened = FALSE
    /\ manim_file = PriorContent
    /\ stdout = <<>>
    /\ raised = ""

-----------------------------------------------------------------------------
(* Step 1: the configuration, lines 10-20 *)

\* float(config["CLI"].get(key, default)): the default is already a number.
ConfigValue(value, default) ==
    IF IsNone(value) THEN Some(RInt(default)) ELSE ParseFloat(Val(value))

Raise(exception) ==
    /\ pc' = "raised"
    /\ raised' = exception

ReadConfigNoSection ==
    /\ pc = "config"
    /\ ~config.section
    /\ pc' = "load"
    /\ UNCHANGED <<config, document, manim_frame_width, manim_frame_height,
                   shapes, i, frames, fi, oi, scale, opened, manim_file,
                   stdout, raised>>

ReadConfigSection ==
    /\ pc = "config"
    /\ config.section
    /\ LET w == ConfigValue(config.frame_width, DefaultFrameWidth)
           h == ConfigValue(config.frame_height, DefaultFrameHeight)
       IN  \/ /\ ~IsNone(w)
              /\ ~IsNone(h)
              /\ manim_frame_width' = Val(w)
              /\ manim_frame_height' = Val(h)
              /\ pc' = "load"
              /\ UNCHANGED raised
           \/ /\ IsNone(w)
              /\ Raise("ValueError")
              /\ UNCHANGED <<manim_frame_width, manim_frame_height>>
           \/ /\ ~IsNone(w)
              /\ IsNone(h)
              /\ Raise("ValueError")
              /\ manim_frame_width' = Val(w)
              /\ UNCHANGED manim_frame_height
    /\ UNCHANGED <<config, document, shapes, i, frames, fi, oi, scale, opened,
                   manim_file, stdout>>

-----------------------------------------------------------------------------
(* The document, lines 22-28 *)

LoadDocument ==
    /\ pc = "load"
    /\ shapes' = GetOr(document, <<>>)
    /\ \/ /\ shapes' = <<>>
          /\ stdout' = Append(stdout, "No elements found in the Excalidraw file.")
          /\ pc' = "returned"
          /\ UNCHANGED i
       \/ /\ shapes' # <<>>
          /\ pc' = "aggregate"
          /\ i' = 1
          /\ UNCHANGED stdout
    /\ UNCHANGED <<config, document, manim_frame_width, manim_frame_height,
                   frames, fi, oi, scale, opened, manim_file, raised>>

-----------------------------------------------------------------------------
(* Step 2: aggregation of the objects into frames, lines 31-56 *)

\* frame_id in frames
HasFrame(frs, frame_id) == \E k \in DOMAIN frs : frs[k].key = frame_id

FrameIndex(frs, frame_id) == CHOOSE k \in DOMAIN frs : frs[k].key = frame_id

\* A variant that takes the first element that names frame_id as its frame.
FindMember(shs, frame_id) ==
    LET matches == {j \in DOMAIN shs : shs[j].frameId = Some(frame_id)}
    IN  IF matches = {} THEN 0
        ELSE CHOOSE j \in matches : \A m \in matches : j <= m

\* next(shape for shape in shapes if shape.get("id") == frame_id): the
\* position of the first match, 0 when the generator is exhausted.
FindFrame(shs, frame_id) ==
    LET matches == {j \in DOMAIN shs : shs[j].id = Some(frame_id)}
    IN  IF matches = {} THEN 0
        ELSE CHOOSE j \in matches : \A m \in matches : j <= m

\* A variant that also files the frame's own shape among its objects.
NewFrameWithSelf(frame_id, frame, j) ==
    [key |-> frame_id, width |-> frame.width, height |-> frame.height,
     x |-> frame.x, y |-> frame.y, name |-> frame.name,
     objects |-> <<[type |-> frame.type, x |-> frame.x, y |-> frame.y,
                    width |-> GetOr(frame.width, RInt(0)),
                    height |-> GetOr(frame.height, RInt(0)),
                    text |-> GetOr(frame.text, <<>>),
                    fontSize |-> GetOr(frame.fontSize, RInt(0)),
                    src |-> j]>>,
     src |-> j]

\* Lines 39-46.  src is the position of the element the geometry is read
\* from; it is bookkeeping of the model, not a key of the dict.
NewFrame(frame_id, frame, j) ==
    [key |-> frame_id, width |-> frame.width, height |-> frame.height,
     x |-> frame.x, y |-> frame.y, name |-> frame.name, objects |-> <<>>,
     src |-> j]

\* Lines 47-55.  src is the position of the element the object is built
\* from; it is bookkeeping of the model, not a key of the dict.
MakeObject(shape, k) ==
    [type |-> shape.type, x |-> shape.x, y |-> shape.y,
     width |-> GetOr(shape.width, RInt(0)),
     height |-> GetOr(shape.height, RInt(0)),
     text |-> GetOr(shape.text, <<>>),
     fontSize |-> GetOr(shape.fontSize, RInt(0)),
     src |-> k]

\* A variant that puts the new object first.
AddObjectFirst(frs, frame_id, object) ==
    [frs EXCEPT ![FrameIndex(frs, frame_id)].objects = <<object>> \o @]

\* Line 56: frames[frame_id]["objects"].append(object)
AddObject(frs, frame_id, object) ==
    [frs EXCEPT ![FrameIndex(frs, frame_id)].objects = Append(@, object)]

\* Lines 35-46: the frames dict with an entry for frame_id.
EnsureFrame(shs, frs, frame_id) ==
    IF HasFrame(frs, frame_id) THEN frs
    ELSE LET j == FindFrame(shs, frame_id)
         IN  Append(frs, NewFrame(frame_id, shs[j], j))

\* Whether the iteration for element k ends in next() raising StopIteration.
StopsIteration(shs, frs, k) ==
    /\ ~IsNone(shs[k].frameId)
    /\ ~HasFrame(frs, Val(shs[k].frameId))
    /\ FindFrame(shs, Val(shs[k].frameId)) = 0

\* One iteration of the loop of line 32 that does not raise.
AggregateShape(shs, frs, k) ==
    LET frame_id == shs[k].frameId
    IN  IF IsNone(frame_id) THEN frs
        ELSE AddObject(EnsureFrame(shs, frs, Val(frame_id)), Val(frame_id),
                       MakeObject(shs[k], k))

\* The loop of line 32 from element k on: the frames when it ends, and
\* the exception that ended it, "" if none.
RECURSIVE AggregateFrom(_, _, _)
AggregateFrom(shs, frs, k) ==
    IF k > Len(shs) THEN [frames |-> frs, raised |-> ""]
    ELSE IF StopsIteration(shs, frs, k)
    THEN [frames |-> frs, raised |-> "StopIteration"]
    ELSE AggregateFrom(shs, AggregateShape(shs, frs, k), k + 1)

Aggregate ==
    /\ pc = "aggregate"
    /\ \/ /\ StopsIteration(shapes, frames, i)
          /\ Raise("StopIteration")
          /\ UNCHANGED <<frames, i>>
       \/ /\ ~StopsIteration(shapes, frames, i)
          /\ frames' = AggregateShape(shapes, frames, i)
          /\ i' = i + 1
          /\ pc' = IF i = Len(shapes) THEN "open" ELSE "aggregate"
          /\ UNCHANGED raised
    /\ UNCHANGED <<config, document, manim_frame_width, manim_frame_height,
                   shapes, fi, oi, scale, opened, manim_file, stdout>>

-----------------------------------------------------------------------------
(* Step 3: the scenes, lines 59-123 *)

Generated == "Manim script generated and saved"

\* Lines 59-60, and line 123 when there is no frame to write.
OpenOutput ==
    /\ pc = "open"
    /\ opened' = TRUE
    /\ manim_file' = <<PlainEntry("import", "", <<>>)>>
    /\ \/ /\ frames = <<>>
          /\ stdout' = Append(stdout, Generated)
          /\ pc' = "returned"
          /\ UNCHANGED fi
       \/ /\ frames # <<>>
          /\ pc' = "frame"
          /\ fi' = 1
          /\ UNCHANGED stdout
    /\ UNCHANGED <<config, document, manim_frame_width, manim_frame_height,
                   shapes, i, frames, oi, scale, raised>>

\* Lines 70-72 raise before anything of the frame is printed or written:
\* dividing by None is a TypeError, dividing by zero a ZeroDivisionError;
\* the width is divided by first.
ScaleError(frame) ==
    IF IsNone(frame.width) THEN "TypeError"
    ELSE IF RIsZero(Val(frame.width)) THEN "ZeroDivisionError"
    ELSE IF IsNone(frame.height) THEN "TypeError"
    ELSE IF RIsZero(Val(frame.height)) THEN "ZeroDivisionError"
    ELSE ""

\* Lines 70-72
Scale(canvas_width, canvas_height, frame) ==
    LET scale_x == RDiv(canvas_width, Val(frame.width))
        scale_y == RDiv(canvas_height, Val(frame.height))
    IN  RMin(scale_x, scale_y)

\* A variant that writes the heading before the scale is computed.
HeadingFirst(frame, file) ==
    file \o <<PlainEntry("class", frame.key, SceneName(GetOr(frame.name, <<>>))),
              PlainEntry("construct", frame.key, <<>>)>>

\* Lines 75-76 and 83-85: the class and construct lines of a frame, reached
\* only when neither the division nor frame_name.title() has raised.
Heading(frame, file) ==
    IF ScaleError(frame) # "" \/ IsNone(frame.name) THEN file
    ELSE file \o <<PlainEntry("class", frame.key, SceneName(Val(frame.name))),
                   PlainEntry("construct", frame.key, <<>>)>>

\* Lines 62-85: the scale, the summary and the two heading lines of a frame.
BeginFrame ==
    /\ pc = "frame"
    /\ LET frame == frames[fi]
       IN  \/ /\ ScaleError(frame) # ""
              /\ Raise(ScaleError(frame))
              /\ manim_file' = Heading(frame, manim_file)
              /\ UNCHANGED <<scale, stdout, oi>>
           \/ /\ ScaleError(frame) = ""
              /\ IsNone(frame.name)
              /\ scale' = Some(Scale(manim_frame_width, manim_frame_height, frame))
              /\ Raise("AttributeError")
              /\ manim_file' = Heading(frame, manim_file)
              /\ UNCHANGED <<stdout, oi>>
           \/ /\ ScaleError(frame) = ""
              /\ ~IsNone(frame.name)
              /\ scale' = Some(Scale(manim_frame_width, manim_frame_height, frame))
              /\ stdout' = Append(stdout, "Frame summary")
              /\ manim_file' = Heading(frame, manim_file)
              /\ oi' = 1
              /\ pc' = "object"
              /\ UNCHANGED raised
    /\ UNCHANGED <<config, document, manim_frame_width, manim_frame_height,
                   shapes, i, frames, fi, opened>>

Half(a) == RDiv(a, RInt(2))

\* Line 95-96
CanvasX(obj, frame, s) ==
    RMul(RAdd(RSub(RSub(Val(obj.x), Val(frame.x)), Half(Val(frame.width))),
              Half(obj.width)), s)

\* A variant without the sign flip.
CanvasYUnflipped(obj, frame, s) ==
    RMul(RAdd(RSub(RSub(Val(obj.y), Val(frame.y)), Half(Val(frame.height))),
              Half(obj.height)), s)

\* Line 97-98
CanvasY(obj, frame, s) ==
    RMul(RNeg(RAdd(RSub(RSub(Val(obj.y), Val(frame.y)), Half(Val(frame.height))),
                   Half(obj.height))), s)

\* Line 99
CanvasWidth(obj, s) == RMul(obj.width, s)

\* Line 100
CanvasHeight(obj, s) == RMul(obj.height, s)

\* Lines 95-98 subtract before they look at the type: None on either side
\* is a TypeError.
TransformError(obj, frame) ==
    IsNone(obj.x) \/ IsNone(frame.x) \/ IsNone(obj.y) \/ IsNone(frame.y)

\* Line 115: obj["fontSize"] * 0.3
FontSize(obj) == RMul(obj.fontSize, Rat(3, 10))

Drawing(kind, obj, frame, s, lines, font_size) ==
    Entry(kind, frame.key, obj.src, <<>>, CanvasX(obj, frame, s),
          CanvasY(obj, frame, s), CanvasWidth(obj, s), CanvasHeight(obj, s),
          lines, font_size)

\* Lines 105-119: the statements written for one object, none for a type
\* other than the three.
Statements(obj, frame, s) ==
    IF obj.type = Some("rectangle")
    THEN <<Drawing("Rectangle", obj, frame, s, <<>>, RInt(0))>>
    ELSE IF obj.type = Some("ellipse")
    THEN <<Drawing("Ellipse", obj, frame, s, <<>>, RInt(0))>>
    ELSE IF obj.type = Some("text")
    THEN <<Drawing("VGroup", obj, frame, s, SplitLines(obj.text), FontSize(obj))>>
    ELSE <<>>

\* Lines 94-121 for one object, and line 123 after the last frame.
EmitObject ==
    /\ pc = "object"
    /\ LET frame == frames[fi]
           obj == frame.objects[oi]
           written == manim_file \o Statements(obj, frame, Val(scale))
       IN  \/ /\ TransformError(obj, frame)
              /\ Raise("TypeError")
              /\ UNCHANGED <<manim_file, oi, fi, stdout>>
           \/ /\ ~TransformError(obj, frame)
              /\ oi < Len(frame.objects)
              /\ manim_file' = written
              /\ oi' = oi + 1
              /\ UNCHANGED <<pc, fi, stdout, raised>>
           \/ /\ ~TransformError(obj, frame)
              /\ oi = Len(frame.objects)
              /\ fi < Len(frames)
              /\ manim_file' = Append(written, PlainEntry("blank", frame.key, <<>>))
              /\ fi' = fi + 1
              /\ pc' = "frame"
              /\ UNCHANGED <<oi, stdout, raised>>
           \/ /\ ~TransformError(obj, frame)
              /\ oi = Len(frame.objects)
              /\ fi = Len(frames)
              /\ manim_file' = Append(written, PlainEntry("blank", frame.key, <<>>))
              /\ stdout' = Append(stdout, Generated)
              /\ pc' = "returned"
              /\ UNCHANGED <<oi, fi, raised>>
    /\ UNCHANGED <<config, document, manim_frame_width, manim_frame_height,
                   shapes, i, frames, scale, opened>>

-----------------------------------------------------------------------------

Next ==
    \/ ReadConfigNoSection
    \/ ReadConfigSection
    \/ LoadDocument
    \/ Aggregate
    \/ OpenOutput
    \/ BeginFrame
    \/ EmitObject

Spec == Init /\ [][Next]_vars

-----------------------------------------------------------------------------
(* Vocabulary of the properties *)

RECURSIVE Ascending(_)
\* The elements of a finite set of numbers, smallest first.
Ascending(S) ==
    IF S = {} THEN <<>>
    ELSE LET m == CHOOSE a \in S : \A b \in S : a <= b
         IN  <<m>> \o Ascending(S \ {m})

\* The positions of the elements that name frame f as their frame.
Members(shs, f) == {k \in DOMAIN shs : shs[k].frameId = Some(f)}

\* The positions at which a non-null frameId occurs for the first time.
FirstEncounters(shs) ==
    {k \in DOMAIN shs :
        /\ ~IsNone(shs[k].frameId)
        /\ \A m \in 1..(k - 1) : shs[m].frameId # shs[k].frameId}

FirstEncounterOrder(shs) ==
    LET at == Ascending(FirstEncounters(shs))
    IN  [n \in DOMAIN at |-> Val(shs[at[n]].frameId)]

Drawable(shape) ==
    shape.type \in {Some("rectangle"), Some("ellipse"), Some("text")}

IsDrawing(e) == e.kind \in {"Rectangle", "Ellipse", "VGroup"}

Srcs(seq) == [n \in DOMAIN seq |-> seq[n].src]

Keys(frs) == [n \in DOMAIN frs |-> frs[n].key]

FrameTags(seq) == [n \in DOMAIN seq |-> seq[n].frame]

\* The entries of the output file written for frame f.
EntriesOf(f) == SelectSeq(manim_file, LAMBDA e : e.frame = f)

DrawingsOf(f) == SelectSeq(manim_file, LAMBDA e : e.frame = f /\ IsDrawing(e))

Completed == pc = "returned" /\ opened

\* BeginFrame has been executed for the k-th frame.
Processed(k) == fi > k \/ (fi = k /\ pc # "frame")

-----------------------------------------------------------------------------
(* C1 *)

\* C1: when the function completes, the scene blocks of the output file
\* are in the order in which each distinct non-null frameId is first
\* encountered in the input, each block is contiguous and holds the
\* drawings of that frame's elements in input order, each frame's objects
\* are exactly the elements naming it, in input order, and an element
\* with a null frameId is an object of no frame.
C1_SceneOrder ==
    Completed =>
        /\ FrameTags(SelectSeq(manim_file, LAMBDA e : e.kind = "class"))
              = FirstEncounterOrder(shapes)
        /\ Keys(frames) = FirstEncounterOrder(shapes)
        /\ \A a, c \in DOMAIN manim_file :
              (a + 1 < c /\ manim_file[a].frame = manim_file[c].frame)
                  => manim_file[a + 1].frame = manim_file[a].frame
        /\ \A k \in DOMAIN frames :
              /\ Srcs(frames[k].objects)
                    = Ascending(Members(shapes, frames[k].key))
              /\ Srcs(DrawingsOf(frames[k].key))
                    = Ascending({m \in Members(shapes, frames[k].key) :
                                    Drawable(shapes[m])})
        /\ \A k \in DOMAIN shapes :
              IsNone(shapes[k].frameId) =>
                  /\ \A n \in DOMAIN frames :
                        \A m \in DOMAIN frames[n].objects :
                            frames[n].objects[m].src # k
                  /\ \A n \in DOMAIN manim_file : manim_file[n].src # k

\* Two scenes were written, and the frame written first is the one whose
\* own shape comes later in the input.
C1_Witness ==
    /\ Completed
    /\ Len(frames) = 2
    /\ frames[1].src > frames[2].src
    /\ \E n \in DOMAIN manim_file : IsDrawing(manim_file[n])

-----------------------------------------------------------------------------
(* C3 *)

IsZero(o) == ~IsNone(o) /\ RIsZero(Val(o))

IsNonZero(o) == ~IsNone(o) /\ ~RIsZero(Val(o))

NothingWrittenFor(f) == EntriesOf(f) = <<>>

\* C3 as claimed: whenever a frame whose width or height is zero has been
\* processed, the function has raised a ZeroDivisionError at that frame
\* and the output file holds no entry of that frame.
C3_AsClaimed ==
    \A k \in DOMAIN frames :
        (Processed(k) /\ (IsZero(frames[k].width) \/ IsZero(frames[k].height)))
            => /\ pc = "raised"
               /\ raised = "ZeroDivisionError"
               /\ fi = k
               /\ NothingWrittenFor(frames[k].key)

\* C3 as amended: the same for a frame whose width is zero, or whose
\* width is a non-zero number and whose height is zero.
C3_ZeroDimension ==
    \A k \in DOMAIN frames :
        (Processed(k) /\ (\/ IsZero(frames[k].width)
                          \/ (IsNonZero(frames[k].width) /\ IsZero(frames[k].height))))
            => /\ pc = "raised"
               /\ raised = "ZeroDivisionError"
               /\ fi = k
               /\ NothingWrittenFor(frames[k].key)

\* The second of two frames has a zero dimension: the division has raised
\* after the first frame's scene was written.
C3_Witness ==
    /\ pc = "raised"
    /\ raised = "ZeroDivisionError"
    /\ fi = 2
    /\ IsNonZero(frames[2].width)
    /\ IsZero(frames[2].height)
    /\ EntriesOf(frames[1].key) # <<>>

-----------------------------------------------------------------------------
(* C6 *)

\* C6 as claimed: the element a frame's geometry was read from is never
\* one of that frame's objects.
C6_AsClaimed ==
    \A k \in DOMAIN frames :
        \A m \in DOMAIN frames[k].objects :
            frames[k].objects[m].src # frames[k].src

\* C6 as amended: the element a frame's geometry was read from is one of
\* that frame's objects only if that element's frameId is its own id.
C6_FrameNotOwnObject ==
    \A k \in DOMAIN frames :
        \A m \in DOMAIN frames[k].objects :
            frames[k].objects[m].src = frames[k].src
                => shapes[frames[k].src].frameId = shapes[frames[k].src].id

\* Aggregation is over, and a frame whose own shape names another frame
\* (or none) has an object.
C6_Witness ==
    /\ pc = "open"
    /\ \E k \in DOMAIN frames :
          /\ shapes[frames[k].src].frameId # shapes[frames[k].src].id
          /\ frames[k].objects # <<>>

-----------------------------------------------------------------------------
(* C2 *)

\* C2 as claimed: once the aggregation loop is over for a document in
\* which some element's frameId is the id of no element, the function has
\* raised a MissingFrameError.
C2_AsClaimed ==
    \A k \in DOMAIN shapes :
        (/\ pc # "aggregate"
         /\ ~IsNone(shapes[k].frameId)
         /\ \A j \in DOMAIN shapes : shapes[j].id # shapes[k].frameId)
            => pc = "raised" /\ raised = "MissingFrameError"

-----------------------------------------------------------------------------
(* C4 *)

NoElements == GetOr(document, <<>>) = <<>>

\* C4 as claimed: for a document whose elements key is absent or empty,
\* the output file is never opened nor changed, and when the function
\* ends it has returned, having reported that no elements were found.
C4_AsClaimed ==
    NoElements =>
        /\ ~opened
        /\ manim_file = PriorContent
        /\ pc \in {"returned", "raised"} =>
              /\ pc = "returned"
              /\ stdout = <<"No elements found in the Excalidraw file.">>

-----------------------------------------------------------------------------
(* C5 *)

\* What the claim expects of one key of the CLI section: the number
\* written there, or the default when there is no section, no key, or no
\* readable number.
Expected(value, default) ==
    IF ~config.section \/ IsNone(value) \/ IsNone(ParseFloat(Val(value)))
    THEN RInt(default)
    ELSE Val(ParseFloat(Val(value)))

\* C5 as claimed: once the configuration has been read, no ValueError has
\* been raised and the canvas is what the configuration says, with the
\* defaults 14 and 8 standing in for an absent section, an absent key and
\* a value that is no number.
C5_AsClaimed ==
    pc # "config" =>
        /\ raised # "ValueError"
        /\ manim_frame_width = Expected(config.frame_width, DefaultFrameWidth)
        /\ manim_frame_height = Expected(config.frame_height, DefaultFrameHeight)

-----------------------------------------------------------------------------
(* C7 *)

\* C7 as claimed: no drawing statement is ever written for an element of
\* another type than rectangle, ellipse and text, and the object loop
\* never raises at an object of such a type.
C7_AsClaimed ==
    /\ \A n \in DOMAIN manim_file :
          IsDrawing(manim_file[n]) => Drawable(shapes[manim_file[n].src])
    /\ (pc = "raised" /\ raised = "TypeError" /\ ScaleError(frames[fi]) = "")
          => Drawable(shapes[frames[fi].objects[oi].src])

-----------------------------------------------------------------------------
(* C8 *)

\* The frame the value of scale was computed for (when scale is set).
ScaleOwner ==
    IF pc = "frame" \/ (pc = "raised" /\ ScaleError(frames[fi]) # "")
    THEN fi - 1 ELSE fi

\* s = a / b and s <= a / b, by cross-multiplication (b # 0).
EqQuot(s, a, b) == s[1] * a[2] * b[1] = s[2] * a[1] * b[2]

LeQuot(s, a, b) ==
    IF b[1] > 0 THEN s[1] * a[2] * b[1] <= s[2] * a[1] * b[2]
    ELSE s[1] * a[2] * b[1] >= s[2] * a[1] * b[2]

\* p = a * s, by cross-multiplication.
EqProd(p, a, s) == p[1] * a[2] * s[2] = p[2] * a[1] * s[1]

ObjectOf(frame, src) ==
    frame.objects[CHOOSE m \in DOMAIN frame.objects : frame.objects[m].src = src]

ScaleIsMinAndShared(frame, s) ==
    /\ EqQuot(s, manim_frame_width, Val(frame.width))
          \/ EqQuot(s, manim_frame_height, Val(frame.height))
    /\ LeQuot(s, manim_frame_width, Val(frame.width))
    /\ LeQuot(s, manim_frame_height, Val(frame.height))
    /\ \A n \in DOMAIN manim_file :
          (IsDrawing(manim_file[n]) /\ manim_file[n].frame = frame.key) =>
              /\ EqProd(manim_file[n].width,
                        ObjectOf(frame, manim_file[n].src).width, s)
              /\ EqProd(manim_file[n].height,
                        ObjectOf(frame, manim_file[n].src).height, s)

\* C8 as claimed: the scale of a frame is min(Cw/W, Ch/H), every drawing
\* of the frame has its width and its height multiplied by it, and it is
\* positive when W and H are.
C8_AsClaimed ==
    ~IsNone(scale) =>
        LET frame == frames[ScaleOwner]
        IN  /\ ScaleIsMinAndShared(frame, Val(scale))
            /\ (Val(frame.width)[1] > 0 /\ Val(frame.height)[1] > 0)
                  => Val(scale)[1] > 0

\* C8 as amended: the same, the scale being positive when W, H and both
\* canvas dimensions are.
C8_Scale ==
    ~IsNone(scale) =>
        LET frame == frames[ScaleOwner]
        IN  /\ ScaleIsMinAndShared(frame, Val(scale))
            /\ (/\ Val(frame.width)[1] > 0
                /\ Val(frame.height)[1] > 0
                /\ manim_frame_width[1] > 0
                /\ manim_frame_height[1] > 0)
                  => Val(scale)[1] > 0

\* A frame is being written with a positive canvas, its scale is the
\* vertical quotient and not the horizontal one, and a drawing of the
\* frame is in the file.
C8_Witness ==
    /\ pc = "object"
    /\ manim_frame_width[1] > 0
    /\ manim_frame_height[1] > 0
    /\ EqQuot(Val(scale), manim_frame_height, Val(frames[fi].height))
    /\ ~EqQuot(Val(scale), manim_frame_width, Val(frames[fi].width))
    /\ DrawingsOf(frames[fi].key) # <<>>

-----------------------------------------------------------------------------
(* C9 *)

Perms(n) == {p \in [1..n -> 1..n] : \A a, b \in 1..n : a # b => p[a] # p[b]}

Permute(shs, p) == [k \in DOMAIN shs |-> shs[p[k]]]

GeometryOf(r) == <<r.x, r.y, r.width, r.height, r.name>>

WithId(shs, f) == {j \in DOMAIN shs : shs[j].id = Some(f)}

\* The frames of the run agree with those aggregated from the reordering p
\* of the same elements: a frame recorded by both has the same geometry,
\* and when both loops complete, the same elements as objects.
AgreesWithReordering(p, keys) ==
    LET other == AggregateFrom(Permute(shapes, p), <<>>, 1)
    IN  \A k \in DOMAIN frames : \A m \in DOMAIN other.frames :
            (frames[k].key \in keys /\ other.frames[m].key = frames[k].key) =>
                /\ GeometryOf(other.frames[m]) = GeometryOf(frames[k])
                /\ (pc = "open" /\ other.raised = "") =>
                      {p[o] : o \in Range(Srcs(other.frames[m].objects))}
                          = Range(Srcs(frames[k].objects))

\* The aggregation loop has just ended, normally or not (the frames do not
\* change afterwards).
Aggregated == pc = "open" \/ raised = "StopIteration"

\* C9 as claimed: when the aggregation loop has ended, the geometry
\* recorded for a frameId is that of every element whose id is that
\* frameId, and is the same for every reordering of the elements.
C9_AsClaimed ==
    Aggregated =>
        /\ \A k \in DOMAIN frames : \A j \in WithId(shapes, frames[k].key) :
              GeometryOf(frames[k]) = GeometryOf(shapes[j])
        /\ \A p \in Perms(Len(shapes)) : AgreesWithReordering(p, Ids)

\* C9 as amended: when the aggregation loop has ended, the geometry
\* recorded for a frameId is that of the first element whose id is that
\* frameId, and is the same for every reordering of the elements when
\* only one element has that id.
C9_Geometry ==
    Aggregated =>
        /\ \A k \in DOMAIN frames :
              /\ WithId(shapes, frames[k].key) # {}
              /\ \A j \in WithId(shapes, frames[k].key) :
                    (\A m \in WithId(shapes, frames[k].key) : j <= m)
                        => GeometryOf(frames[k]) = GeometryOf(shapes[j])
        /\ \A p \in Perms(Len(shapes)) :
              AgreesWithReordering(p,
                  {f \in Ids : Cardinality(WithId(shapes, f)) = 1})

\* Aggregation is over; a frame's own shape comes after its first member
\* in the input, is the only element with that id, and differs from the
\* member in geometry.
C9_Witness ==
    /\ pc = "open"
    /\ \E k \in DOMAIN frames :
          /\ Cardinality(WithId(shapes, frames[k].key)) = 1
          /\ frames[k].src > frames[k].objects[1].src
          /\ GeometryOf(shapes[frames[k].src])
                # GeometryOf(shapes[frames[k].objects[1].src])

-----------------------------------------------------------------------------
(* C10 *)

CenterX(r) == RAdd(Val(r.x), Half(GetOr(r.width, RInt(0))))

CenterY(r) == RAdd(Val(r.y), Half(GetOr(r.height, RInt(0))))

\* canvas_x / scale + F.x + F.width / 2
ReverseX(canvas_x, frame, s) ==
    RAdd(RAdd(RDiv(canvas_x, s), Val(frame.x)), Half(Val(frame.width)))

\* -canvas_y / scale + F.y + F.height / 2
ReverseY(canvas_y, frame, s) ==
    RAdd(RAdd(RDiv(RNeg(canvas_y), s), Val(frame.y)), Half(Val(frame.height)))

\* The objects of the frame the scale belongs to whose transform has been
\* computed without raising.
Transformed ==
    LET done == IF pc = "object" THEN oi - 1
                ELSE IF pc = "raised" /\ ScaleOwner = fi
                THEN (IF raised = "TypeError" THEN oi - 1 ELSE 0)
                ELSE Len(frames[ScaleOwner].objects)
    IN  {m \in DOMAIN frames[ScaleOwner].objects : m <= done}

RoundTrip(frame, shape, canvas_x, canvas_y, s) ==
    /\ ReverseX(canvas_x, frame, s) = CenterX(shape)
    /\ ReverseY(canvas_y, frame, s) = CenterY(shape)

\* An object centred on the frame's centre is put at (0, 0), and every
\* drawing is put where the transform says, with the scaled size.
AsTransformed(frame, s) ==
    /\ \A m \in Transformed :
          LET obj == frame.objects[m]
          IN  (CenterX(shapes[obj.src]) = CenterX(frame)
                  /\ CenterY(shapes[obj.src]) = CenterY(frame))
                  => /\ CanvasX(obj, frame, s) = RInt(0)
                     /\ CanvasY(obj, frame, s) = RInt(0)
    /\ \A n \in DOMAIN manim_file :
          (IsDrawing(manim_file[n]) /\ manim_file[n].frame = frame.key) =>
              LET obj == ObjectOf(frame, manim_file[n].src)
              IN  /\ manim_file[n].x = CanvasX(obj, frame, s)
                  /\ manim_file[n].y = CanvasY(obj, frame, s)
                  /\ EqProd(manim_file[n].width, obj.width, s)
                  /\ EqProd(manim_file[n].height, obj.height, s)

\* C10 as claimed: for every object whose transform has been computed,
\* the reverse mapping is defined and recovers the centre of the element
\* from the computed position, and likewise from the position written to
\* the file; an object centred on the frame's centre is put at (0, 0)
\* with the scaled size.
C10_AsClaimed ==
    ~IsNone(scale) =>
        LET frame == frames[ScaleOwner]
            s == Val(scale)
        IN  /\ AsTransformed(frame, s)
            /\ \A m \in Transformed :
                  /\ ~RIsZero(s)
                  /\ RoundTrip(frame, shapes[frame.objects[m].src],
                               CanvasX(frame.objects[m], frame, s),
                               CanvasY(frame.objects[m], frame, s), s)
            /\ \A n \in DOMAIN manim_file :
                  (IsDrawing(manim_file[n]) /\ manim_file[n].frame = frame.key) =>
                      /\ ~RIsZero(s)
                      /\ RoundTrip(frame, shapes[manim_file[n].src],
                                   manim_file[n].x, manim_file[n].y, s)

\* C10 as amended: the same whenever the scale is not zero.
C10_RoundTrip ==
    ~IsNone(scale) =>
        LET frame == frames[ScaleOwner]
            s == Val(scale)
        IN  /\ AsTransformed(frame, s)
            /\ ~RIsZero(s) =>
                  /\ \A m \in Transformed :
                        RoundTrip(frame, shapes[frame.objects[m].src],
                                  CanvasX(frame.objects[m], frame, s),
                                  CanvasY(frame.objects[m], frame, s), s)
                  /\ \A n \in DOMAIN manim_file :
                        (IsDrawing(manim_file[n]) /\ manim_file[n].frame = frame.key) =>
                            RoundTrip(frame, shapes[manim_file[n].src],
                                      manim_file[n].x, manim_file[n].y, s)

\* A drawing was written, with a non-zero scale, for an element whose
\* centre lies below the bottom edge of its frame.
C10_Witness ==
    /\ ~IsNone(scale)
    /\ ~RIsZero(Val(scale))
    /\ \E n \in DOMAIN manim_file :
          /\ IsDrawing(manim_file[n])
          /\ manim_file[n].frame = frames[ScaleOwner].key
          /\ RLess(RAdd(Val(frames[ScaleOwner].y), Val(frames[ScaleOwner].height)),
                   CenterY(shapes[manim_file[n].src]))
          /\ manim_file[n].y # RInt(0)

====
